---- MODULE Spec2Model ----
(***************************************************************************)
(* Token-bounded chunking and hierarchical summarization of                *)
(* UrduLLMProcessor (src/llm.py).                                          *)
(*                                                                         *)
(* A text is a sequence of paragraphs (the pieces re.split(r'\n\s*\n')     *)
(* yields); a paragraph is the sequence of its sentences (the pieces the   *)
(* sentence regex yields), each sentence given by its token count.  A      *)
(* string result is the sequence of its space-separated words, so that     *)
(* ' '.join is concatenation.                                              *)
(***************************************************************************)
EXTENDS Integers, Sequences, FiniteSets, TLC

VARIABLES
    text,             \* the document handed to summarize_text
    sepCost,          \* tokens the tokenizer adds per joined piece (0: additive)
    pc,               \* position inside summarize_text
    chunks,           \* result of _chunk_text_for_summarization
    valid_chunks,     \* chunks with at least MIN_CHUNK_LENGTH tokens
    idx,              \* position of the for loop over valid_chunks
    chunk_summaries,  \* truthy chunk summaries collected so far
    calls,            \* every invocation of self.summarizer, in order
    chunked,          \* TRUE once _chunk_text_for_summarization was invoked
    result,           \* value returned by summarize_text
    bpc,              \* position of the budget computation
    n_chunks,         \* len(valid_chunks) as seen by the budget computation
    token_count,      \* token count of the text given to _safe_summarize
    budget,           \* (max_length, min_length) requested
    bounds,           \* (actual_max, actual_min) after clamping
    cpc,              \* position inside classify_text / _map_to_urdu_category
    classifier,       \* TRUE once self.classifier is set
    label,            \* the label the classifier yields, as its characters
    category,         \* value returned by classify_text / _map_to_urdu_category
    classifier_calls, \* number of invocations of self.classifier
    fpc,              \* position inside process_files
    dir_exists,       \* os.path.exists(self.articles_path)
    summarizer,       \* TRUE once self.summarizer is set
    files,            \* the files of the walk, in walk order
    file_index,       \* index of the next file of the walk
    results,          \* the result records appended so far
    processed_files,  \* the progress counter
    events,           \* what happened to each file visited so far
    spc,              \* position inside scrape_month
    current_url,      \* the month page to fetch next, or NoUrl
    page_count,       \* month pages completed
    links_left,       \* blog-post links of the current page not yet followed
    articles,         \* number of entries of the articles list
    pages_fetched,    \* GET requests issued for month pages
    last_event,       \* the latest of: a GET request, a sleep
    back_to_back,     \* TRUE once a GET followed a GET with no sleep between
    returned          \* len of the list scrape_month returned, -1 before

vars == <<text, sepCost, pc, chunks, valid_chunks, idx, chunk_summaries,
          calls, chunked, result, bpc, n_chunks, token_count, budget, bounds,
          cpc, classifier, label, category, classifier_calls,
          fpc, dir_exists, summarizer, files, file_index, results,
          processed_files, events,
          spc, current_url, page_count, links_left, articles, pages_fetched,
          last_event, back_to_back, returned>>

summVars == <<text, sepCost, pc, chunks, valid_chunks, idx, chunk_summaries,
              calls, chunked, result>>

budgetVars == <<bpc, n_chunks, token_count, budget, bounds>>

classifyVars == <<cpc, classifier, label, category, classifier_calls>>

batchVars == <<fpc, dir_exists, summarizer, files, file_index, results,
               processed_files, events>>

scrapeVars == <<spc, current_url, page_count, links_left, articles,
                pages_fetched, last_event, back_to_back, returned>>

----------------------------------------------------------------------------
(* Program constants.                                                      *)

MAX_SUMMARIZATION_TOKENS == 768
MIN_SUMMARY_LENGTH == 25
MAX_SUMMARY_LENGTH == 120
MIN_CHUNK_LENGTH == 150
max_pages_per_month == 10

PLACEHOLDER_TOO_SHORT ==
    <<"khulasa", "dastiyab", "nahin", "(matn", "bahut", "chhota", "hai)">>

PLACEHOLDER_NO_SUMMARY == <<"khulasa", "dastiyab", "nahin">>

(* The nine Urdu category tags (transliterated) and their English names.   *)
CATEGORY_MAP ==
    [tag \in {"khel", "science", "aalmi", "sehat", "fan-o-saqafat",
              "karobar", "technology", "siyasat", "deegar"} |->
        CASE tag = "khel" -> "sports"
          [] tag = "science" -> "science"
          [] tag = "aalmi" -> "world"
          [] tag = "sehat" -> "health"
          [] tag = "fan-o-saqafat" -> "arts"
          [] tag = "karobar" -> "business"
          [] tag = "technology" -> "technology"
          [] tag = "siyasat" -> "politics"
          [] tag = "deegar" -> "other"]

----------------------------------------------------------------------------
(* Bounds of the model.                                                    *)

MaxSents == 3
MaxValidChunks == 12

TokenVals == {0, 150, 618, 769}
SepCosts == {0, 1}
BudgetTokenVals == {5, 149, 150, 151, 768}
ClampRange == 4
MaxLinks == 2
MaxPagePosts == 1
MaxLabelParts == 2
MaxFiles == 3

(* Pieces the classifier's labels are put together from.                   *)
LabelParts ==
    {<<"s", "p", "o", "r", "t">>,
     <<"S", "P", "O", "R", "T", "S">>,
     <<"T", "e", "c", "h">>,
     <<"p", "o", "l", "i", "t">>,
     <<"h", "e", "a", "l", "t", "h">>,
     <<"s", "c", "i", "e", "n", "c", "e">>,
     <<"w", "o", "r", "l", "d">>,
     <<"s", "m", "a", "r", "t">>,
     <<"c", "u", "l", "t", "u", "r", "e">>,
     <<"b", "u", "s", "i", "n", "e", "s", "s">>,
     <<"L", "A", "B", "E", "L", "_", "0">>,
     <<"x">>}

----------------------------------------------------------------------------
(* Helpers.                                                                *)

Max(a, b) == IF a >= b THEN a ELSE b
Min(a, b) == IF a <= b THEN a ELSE b

RECURSIVE SumSeq(_)
SumSeq(s) == IF s = <<>> THEN 0 ELSE Head(s) + SumSeq(Tail(s))

RECURSIVE Flatten(_)
Flatten(ss) == IF ss = <<>> THEN <<>> ELSE Head(ss) \o Flatten(Tail(ss))

Lens(units) == [k \in 1..Len(units) |-> units[k].len]

(* len(tokenizer.tokenize(t)) for a text t made of whitespace-joined       *)
(* pieces with the given token counts.                                     *)
JoinedCount(lens) ==
    IF lens = <<>> THEN 0 ELSE SumSeq(lens) + sepCost * (Len(lens) - 1)

ParaCount(para) == JoinedCount(para)
TextCount(t) == JoinedCount([p \in 1..Len(t) |-> ParaCount(t[p])])
ChunkCount(chunk) == JoinedCount(Lens(chunk))

(* Structural units: a whole paragraph (s = 0) or one sentence of it.      *)
ParaUnit(t, p) == [p |-> p, s |-> 0, len |-> ParaCount(t[p])]
SentUnit(t, p, j) == [p |-> p, s |-> j, len |-> t[p][j]]
SentUnits(t, p) == [j \in 1..Len(t[p]) |-> SentUnit(t, p, j)]

----------------------------------------------------------------------------
(* _chunk_text_for_summarization                                           *)

EmptyAcc == [chunks |-> <<>>, current_chunk |-> <<>>, current_length |-> 0]

AccumulateNoFlush(acc, u) ==
    IF acc.current_length + u.len > MAX_SUMMARIZATION_TOKENS
    THEN [chunks |-> acc.chunks,
          current_chunk |-> <<u>>,
          current_length |-> u.len]
    ELSE [chunks |-> acc.chunks,
          current_chunk |-> Append(acc.current_chunk, u),
          current_length |-> acc.current_length + u.len]

AccumulateNeverClose(acc, u) ==
    [chunks |-> acc.chunks,
     current_chunk |-> Append(acc.current_chunk, u),
     current_length |-> acc.current_length + u.len]

AccumulatePrepend(acc, u) ==
    IF acc.current_length + u.len > MAX_SUMMARIZATION_TOKENS
    THEN [chunks |-> IF acc.current_chunk # <<>>
                     THEN Append(acc.chunks, acc.current_chunk)
                     ELSE acc.chunks,
          current_chunk |-> <<u>>,
          current_length |-> u.len]
    ELSE [chunks |-> acc.chunks,
          current_chunk |-> <<u>> \o acc.current_chunk,
          current_length |-> acc.current_length + u.len]

AccumulateDefersExactFill(acc, u) ==
    IF acc.current_length + u.len >= MAX_SUMMARIZATION_TOKENS
    THEN [chunks |-> IF acc.current_chunk # <<>>
                     THEN Append(acc.chunks, acc.current_chunk)
                     ELSE acc.chunks,
          current_chunk |-> <<u>>,
          current_length |-> u.len]
    ELSE [chunks |-> acc.chunks,
          current_chunk |-> Append(acc.current_chunk, u),
          current_length |-> acc.current_length + u.len]

(* One iteration of the packing loop: the unit opens a new chunk when it   *)
(* does not fit, and is appended to the current chunk otherwise.           *)
Accumulate(acc, u) ==
    IF acc.current_length + u.len > MAX_SUMMARIZATION_TOKENS
    THEN [chunks |-> IF acc.current_chunk # <<>>
                     THEN Append(acc.chunks, acc.current_chunk)
                     ELSE acc.chunks,
          current_chunk |-> <<u>>,
          current_length |-> u.len]
    ELSE [chunks |-> acc.chunks,
          current_chunk |-> Append(acc.current_chunk, u),
          current_length |-> acc.current_length + u.len]

(* for sent in sentences: ...                                              *)
RECURSIVE PackSentences(_, _)
PackSentences(acc, units) ==
    IF units = <<>> THEN acc
    ELSE PackSentences(Accumulate(acc, Head(units)), Tail(units))

PackParagraphFlushFirst(t, acc, p) ==
    IF ParaCount(t[p]) > MAX_SUMMARIZATION_TOKENS
    THEN PackSentences(
             [chunks |-> IF acc.current_chunk # <<>>
                         THEN Append(acc.chunks, acc.current_chunk)
                         ELSE acc.chunks,
              current_chunk |-> <<>>,
              current_length |-> 0],
             SentUnits(t, p))
    ELSE Accumulate(acc, ParaUnit(t, p))

(* Body of "for para in paragraphs": an oversized paragraph is packed      *)
(* sentence by sentence into the running accumulator, any other paragraph  *)
(* is packed whole.                                                        *)
PackParagraph(t, acc, p) ==
    IF ParaCount(t[p]) > MAX_SUMMARIZATION_TOKENS
    THEN PackSentences(acc, SentUnits(t, p))
    ELSE Accumulate(acc, ParaUnit(t, p))

RECURSIVE PackParagraphs(_, _, _)
PackParagraphs(t, acc, p) ==
    IF p > Len(t) THEN acc
    ELSE PackParagraphs(t, PackParagraph(t, acc, p), p + 1)

(* if current_chunk: chunks.append(' '.join(current_chunk))                *)
FinalFlush(acc) ==
    IF acc.current_chunk # <<>>
    THEN Append(acc.chunks, acc.current_chunk)
    ELSE acc.chunks

ChunkTextForSummarization(t) ==
    IF Len(t) > 1
    THEN FinalFlush(PackParagraphs(t, EmptyAcc, 1))
    ELSE FinalFlush(PackSentences(EmptyAcc, SentUnits(t, 1)))

----------------------------------------------------------------------------
(* _safe_summarize                                                         *)

None == [is_none |-> TRUE, summary_text |-> <<>>]
Some(txt) == [is_none |-> FALSE, summary_text |-> txt]
TruthyNotNone(ret) == ~ret.is_none

(* "if summary:" -- neither None nor the empty string.                     *)
Truthy(ret) == ~ret.is_none /\ ret.summary_text # <<>>

(* The text the summarizer produces for an input (deterministic decoding): *)
(* it names the input, so that summaries of different chunks differ.       *)
SummaryOf(kind, units) ==
    IF kind = "document"
    THEN <<"summary", "document">>
    ELSE <<"summary",
           "p" \o ToString(units[1].p) \o "s" \o ToString(units[1].s)>>

(* What one invocation of self.summarizer does: raise, return an empty     *)
(* summary_text, or return the summary of its input.                       *)
SummarizerOutcomes(kind, units) ==
    {[raised |-> TRUE, summary_text |-> <<>>],
     [raised |-> FALSE, summary_text |-> <<>>],
     [raised |-> FALSE, summary_text |-> SummaryOf(kind, units)]}

ClampBoundsNoMinusOne(max_length, min_length, count) ==
    LET actual_max == Min(max_length, count)
        clamped == Min(min_length, actual_max)
        reset == clamped >= actual_max
    IN  [actual_max |-> actual_max,
         actual_min |-> IF reset THEN Max(10, actual_max \div 2) ELSE clamped,
         reset |-> reset]

(* actual_max = min(max_length, token_count)                               *)
(* actual_min = min(min_length, actual_max - 1)                            *)
(* if actual_min >= actual_max: actual_min = max(10, actual_max // 2)      *)
ClampBounds(max_length, min_length, count) ==
    LET actual_max == Min(max_length, count)
        clamped == Min(min_length, actual_max - 1)
        reset == clamped >= actual_max
    IN  [actual_max |-> actual_max,
         actual_min |-> IF reset THEN Max(10, actual_max \div 2) ELSE clamped,
         reset |-> reset]

SafeSummarizeNoMinimum(count, max_length, min_length, out) ==
    LET b == ClampBounds(max_length, min_length, count)
    IN  [called |-> TRUE,
         max_length |-> b.actual_max,
         min_length |-> b.actual_min,
         ret |-> IF out.raised THEN None ELSE Some(out.summary_text),
         propagated |-> FALSE]

SafeSummarizeSwallowsText(count, max_length, min_length, out) ==
    IF count < MIN_CHUNK_LENGTH
    THEN [called |-> FALSE, max_length |-> 0, min_length |-> 0, ret |-> None,
          propagated |-> FALSE]
    ELSE LET b == ClampBounds(max_length, min_length, count)
         IN  [called |-> TRUE,
              max_length |-> b.actual_max,
              min_length |-> b.actual_min,
              ret |-> None,
              propagated |-> FALSE]

SafeSummarizeNoExcept(count, max_length, min_length, out) ==
    IF count < MIN_CHUNK_LENGTH
    THEN [called |-> FALSE, max_length |-> 0, min_length |-> 0, ret |-> None,
          propagated |-> FALSE]
    ELSE LET b == ClampBounds(max_length, min_length, count)
         IN  [called |-> TRUE,
              max_length |-> b.actual_max,
              min_length |-> b.actual_min,
              ret |-> IF out.raised THEN None ELSE Some(out.summary_text),
              propagated |-> out.raised]

SafeSummarizeCallsBeforeCheck(count, max_length, min_length, out) ==
    LET b == ClampBounds(max_length, min_length, count)
    IN  [called |-> TRUE,
         max_length |-> b.actual_max,
         min_length |-> b.actual_min,
         ret |-> IF out.raised \/ count < MIN_CHUNK_LENGTH
                 THEN None ELSE Some(out.summary_text),
         propagated |-> FALSE]

(* count is len(self.tokenizer.tokenize(text)); out is what the summarizer *)
(* does if it is invoked; propagated tells whether an exception leaves     *)
(* _safe_summarize (the except clause catches every one).                  *)
SafeSummarize(count, max_length, min_length, out) ==
    IF count < MIN_CHUNK_LENGTH
    THEN [called |-> FALSE, max_length |-> 0, min_length |-> 0, ret |-> None,
          propagated |-> FALSE]
    ELSE LET b == ClampBounds(max_length, min_length, count)
         IN  [called |-> TRUE,
              max_length |-> b.actual_max,
              min_length |-> b.actual_min,
              ret |-> IF out.raised THEN None ELSE Some(out.summary_text),
         propagated |-> FALSE]

(* The record logged for one invocation of self.summarizer.                *)
CallRecord(kind, units, count, r, out) ==
    [kind |-> kind, units |-> units, token_count |-> count,
     max_length |-> r.max_length, min_length |-> r.min_length,
     raised |-> out.raised, summary_text |-> out.summary_text,
     ret |-> r.ret]

----------------------------------------------------------------------------
(* summarize_text                                                          *)

(* The arguments of the per-chunk _safe_summarize call.                    *)
ChunkBudget(n) ==
    [max_length |-> MAX_SUMMARY_LENGTH \div n,
     min_length |-> Max(15, MIN_SUMMARY_LENGTH \div n)]

GlobalBudget ==
    [max_length |-> MAX_SUMMARY_LENGTH, min_length |-> MIN_SUMMARY_LENGTH]

DocUnits(t) == [p \in 1..Len(t) |-> ParaUnit(t, p)]

Reverse(q) == [k \in 1..Len(q) |-> q[Len(q) + 1 - k]]

JoinSummariesReversed(summaries) == Flatten(Reverse(summaries))

(* ' '.join(chunk_summaries)                                               *)
JoinSummaries(summaries) == Flatten(summaries)

ValidChunksStrict(cs) ==
    SelectSeq(cs, LAMBDA c : ChunkCount(c) > MIN_CHUNK_LENGTH)

(* valid_chunks = [chunk for chunk in chunks if len(tokenize(chunk)) >=    *)
(* MIN_CHUNK_LENGTH]                                                       *)
ValidChunks(cs) ==
    SelectSeq(cs, LAMBDA c : ChunkCount(c) >= MIN_CHUNK_LENGTH)

----------------------------------------------------------------------------
(* The texts summarize_text is run on: every way to cut up to MaxSents     *)
(* sentences into paragraphs.                                              *)

ParaOf(b, k) == 1 + Cardinality({x \in b : x <= k})
ParaSize(b, n, p) == Cardinality({k \in 1..n : ParaOf(b, k) = p})
ParaStart(b, n, p) ==
    CHOOSE k \in 1..n : ParaOf(b, k) = p /\ (k = 1 \/ ParaOf(b, k - 1) # p)

MakeText(s, b) ==
    [p \in 1..(1 + Cardinality(b)) |->
        [j \in 1..ParaSize(b, Len(s), p) |-> s[ParaStart(b, Len(s), p) + j - 1]]]

Texts ==
    UNION {{MakeText(s, b) : s \in [1..n -> TokenVals], b \in SUBSET (2..n)}
              : n \in 1..MaxSents}

BudgetIdle ==
    /\ bpc = "idle"
    /\ n_chunks = 0
    /\ token_count = 0
    /\ budget = GlobalBudget
    /\ bounds = ClampBounds(0, 0, 0)

ClassifyIdle ==
    /\ cpc = "idle"
    /\ classifier = TRUE
    /\ label = <<>>
    /\ category = ""
    /\ classifier_calls = 0

BatchIdle ==
    /\ fpc = "idle"
    /\ dir_exists = TRUE
    /\ summarizer = TRUE
    /\ files = <<>>
    /\ file_index = 1
    /\ results = <<>>
    /\ processed_files = 0
    /\ events = <<>>

ScrapeIdle ==
    /\ spc = "idle"
    /\ current_url = "none"
    /\ page_count = 0
    /\ links_left = 0
    /\ articles = 0
    /\ pages_fetched = 0
    /\ last_event = "none"
    /\ back_to_back = FALSE
    /\ returned = -1

SummIdle ==
    /\ text = <<<<0>>>>
    /\ sepCost = 0
    /\ pc = "idle"
    /\ chunks = <<>>
    /\ valid_chunks = <<>>
    /\ idx = 0
    /\ chunk_summaries = <<>>
    /\ calls = <<>>
    /\ chunked = FALSE
    /\ result = <<>>

Init ==
    /\ text \in Texts
    /\ sepCost \in SepCosts
    /\ pc = "start"
    /\ chunks = <<>>
    /\ valid_chunks = <<>>
    /\ idx = 0
    /\ chunk_summaries = <<>>
    /\ calls = <<>>
    /\ chunked = FALSE
    /\ result = <<>>
    /\ BudgetIdle
    /\ ClassifyIdle
    /\ BatchIdle
    /\ ScrapeIdle

(* tokens = self.tokenizer.tokenize(text); the single-call attempt when    *)
(* the document fits, returning its summary if it is truthy.               *)
WholeDocument ==
    /\ pc = "start"
    /\ \E out \in SummarizerOutcomes("document", DocUnits(text)) :
         LET count == TextCount(text)
             r == SafeSummarize(count, MAX_SUMMARY_LENGTH, MIN_SUMMARY_LENGTH, out)
         IN  IF count <= MAX_SUMMARIZATION_TOKENS
             THEN /\ calls' = IF r.called
                              THEN Append(calls,
                                     CallRecord("document", DocUnits(text), count, r, out))
                              ELSE calls
                  /\ IF r.propagated
                     THEN /\ result' = result
                          /\ pc' = "raised"
                     ELSE IF Truthy(r.ret)
                     THEN /\ result' = r.ret.summary_text
                          /\ pc' = "done"
                     ELSE /\ result' = result
                          /\ pc' = "chunk"
             ELSE /\ calls' = calls
                  /\ result' = result
                  /\ pc' = "chunk"
    /\ UNCHANGED <<text, sepCost, chunks, valid_chunks, idx, chunk_summaries, chunked>>
    /\ UNCHANGED <<budgetVars, classifyVars, batchVars, scrapeVars>>

(* chunks = ...; valid_chunks = [...]; if not valid_chunks: return ...     *)
Chunked ==
    /\ pc = "chunk"
    /\ chunked' = TRUE
    /\ chunks' = ChunkTextForSummarization(text)
    /\ valid_chunks' = ValidChunks(chunks')
    /\ IF valid_chunks' = <<>>
       THEN /\ result' = PLACEHOLDER_TOO_SHORT
            /\ pc' = "done"
            /\ idx' = idx
       ELSE /\ result' = result
            /\ pc' = "loop"
            /\ idx' = 1
    /\ UNCHANGED <<text, sepCost, chunk_summaries, calls>>
    /\ UNCHANGED <<budgetVars, classifyVars, batchVars, scrapeVars>>

SummarizeChunkStopsOnFailure ==
    /\ pc = "loop"
    /\ idx <= Len(valid_chunks)
    /\ \E out \in SummarizerOutcomes("chunk", valid_chunks[idx]) :
         LET chunk == valid_chunks[idx]
             count == ChunkCount(chunk)
             b == ChunkBudget(Len(valid_chunks))
             r == SafeSummarize(count, b.max_length, b.min_length, out)
         IN  /\ calls' = IF r.called
                         THEN Append(calls, CallRecord("chunk", chunk, count, r, out))
                         ELSE calls
             /\ chunk_summaries' = IF ~r.propagated /\ Truthy(r.ret)
                                   THEN Append(chunk_summaries, r.ret.summary_text)
                                   ELSE chunk_summaries
             /\ pc' = IF r.propagated THEN "raised" ELSE pc
             /\ idx' = IF r.propagated THEN idx
                       ELSE IF Truthy(r.ret) THEN idx + 1
                       ELSE Len(valid_chunks) + 1
    /\ UNCHANGED <<text, sepCost, chunks, valid_chunks, chunked, result>>
    /\ UNCHANGED <<budgetVars, classifyVars, batchVars, scrapeVars>>

SummarizeChunkBudgetFromAllChunks ==
    /\ pc = "loop"
    /\ idx <= Len(valid_chunks)
    /\ \E out \in SummarizerOutcomes("chunk", valid_chunks[idx]) :
         LET chunk == valid_chunks[idx]
             count == ChunkCount(chunk)
             b == ChunkBudget(Len(chunks))
             r == SafeSummarize(count, b.max_length, b.min_length, out)
         IN  /\ calls' = IF r.called
                         THEN Append(calls, CallRecord("chunk", chunk, count, r, out))
                         ELSE calls
             /\ chunk_summaries' = IF ~r.propagated /\ Truthy(r.ret)
                                   THEN Append(chunk_summaries, r.ret.summary_text)
                                   ELSE chunk_summaries
             /\ pc' = IF r.propagated THEN "raised" ELSE pc
             /\ idx' = IF r.propagated THEN idx ELSE idx + 1
    /\ UNCHANGED <<text, sepCost, chunks, valid_chunks, chunked, result>>
    /\ UNCHANGED <<budgetVars, classifyVars, batchVars, scrapeVars>>

(* One iteration of "for chunk in valid_chunks".                           *)
SummarizeChunk ==
    /\ pc = "loop"
    /\ idx <= Len(valid_chunks)
    /\ \E out \in SummarizerOutcomes("chunk", valid_chunks[idx]) :
         LET chunk == valid_chunks[idx]
             count == ChunkCount(chunk)
             b == ChunkBudget(Len(valid_chunks))
             r == SafeSummarize(count, b.max_length, b.min_length, out)
         IN  /\ calls' = IF r.called
                         THEN Append(calls, CallRecord("chunk", chunk, count, r, out))
                         ELSE calls
             /\ chunk_summaries' = IF ~r.propagated /\ Truthy(r.ret)
                                   THEN Append(chunk_summaries, r.ret.summary_text)
                                   ELSE chunk_summaries
             /\ pc' = IF r.propagated THEN "raised" ELSE pc
             /\ idx' = IF r.propagated THEN idx ELSE idx + 1
    /\ UNCHANGED <<text, sepCost, chunks, valid_chunks, chunked, result>>
    /\ UNCHANGED <<budgetVars, classifyVars, batchVars, scrapeVars>>

CombineOnePlaceholder ==
    /\ pc = "loop"
    /\ idx > Len(valid_chunks)
    /\ result' = IF chunk_summaries = <<>>
                 THEN PLACEHOLDER_TOO_SHORT
                 ELSE JoinSummaries(chunk_summaries)
    /\ pc' = "done"
    /\ UNCHANGED <<text, sepCost, chunks, valid_chunks, idx, chunk_summaries,
                   calls, chunked>>
    /\ UNCHANGED <<budgetVars, classifyVars, batchVars, scrapeVars>>

(* if not chunk_summaries: return ...; return ' '.join(chunk_summaries)    *)
Combine ==
    /\ pc = "loop"
    /\ idx > Len(valid_chunks)
    /\ result' = IF chunk_summaries = <<>>
                 THEN PLACEHOLDER_NO_SUMMARY
                 ELSE JoinSummaries(chunk_summaries)
    /\ pc' = "done"
    /\ UNCHANGED <<text, sepCost, chunks, valid_chunks, idx, chunk_summaries,
                   calls, chunked>>
    /\ UNCHANGED <<budgetVars, classifyVars, batchVars, scrapeVars>>

Next == WholeDocument \/ Chunked \/ SummarizeChunk \/ Combine

Spec == Init /\ [][Next]_vars

----------------------------------------------------------------------------
(* The length budget on its own: the per-chunk request for every number of *)
(* viable chunks, and its clamping in _safe_summarize.                     *)

BudgetInit ==
    /\ SummIdle
    /\ bpc = "request"
    /\ n_chunks \in 1..MaxValidChunks
    /\ token_count \in BudgetTokenVals
    /\ budget = GlobalBudget
    /\ bounds = ClampBounds(0, 0, 0)
    /\ ClassifyIdle
    /\ BatchIdle
    /\ ScrapeIdle

(* The whole-document call requests the global bounds.                     *)
RequestGlobal ==
    /\ bpc = "request"
    /\ budget' = GlobalBudget
    /\ bpc' = "requested_global"
    /\ UNCHANGED <<n_chunks, token_count, bounds>>
    /\ UNCHANGED <<summVars, classifyVars, batchVars, scrapeVars>>

(* A per-chunk call requests the bounds divided by len(valid_chunks).      *)
RequestPerChunk ==
    /\ bpc = "request"
    /\ budget' = ChunkBudget(n_chunks)
    /\ bpc' = "requested_chunk"
    /\ UNCHANGED <<n_chunks, token_count, bounds>>
    /\ UNCHANGED <<summVars, classifyVars, batchVars, scrapeVars>>

(* _safe_summarize up to the summarizer call.                              *)
Clamp ==
    /\ bpc \in {"requested_global", "requested_chunk"}
    /\ IF token_count < MIN_CHUNK_LENGTH
       THEN /\ bpc' = "none"
            /\ bounds' = bounds
       ELSE /\ bpc' = IF bpc = "requested_global" THEN "clamped_global" ELSE "clamped_chunk"
            /\ bounds' = ClampBounds(budget.max_length, budget.min_length, token_count)
    /\ UNCHANGED <<n_chunks, token_count, budget>>
    /\ UNCHANGED <<summVars, classifyVars, batchVars, scrapeVars>>

BudgetNext == RequestGlobal \/ RequestPerChunk \/ Clamp

SpecBudget == BudgetInit /\ [][BudgetNext]_vars

----------------------------------------------------------------------------
(* The clamping arithmetic of _safe_summarize on its own, for every        *)
(* requested (max_length, min_length) and token count of a range of        *)
(* integers around zero.                                                   *)

ClampInts == (0 - ClampRange)..ClampRange

ClampInit ==
    /\ SummIdle
    /\ ClassifyIdle
    /\ BatchIdle
    /\ ScrapeIdle
    /\ bpc = "requested_any"
    /\ n_chunks = 0
    /\ token_count \in ClampInts
    /\ budget \in [max_length : ClampInts, min_length : ClampInts]
    /\ bounds = ClampBounds(0, 0, 0)

(* actual_max, actual_min and the reset test.                              *)
ClampAny ==
    /\ bpc = "requested_any"
    /\ bounds' = ClampBounds(budget.max_length, budget.min_length, token_count)
    /\ bpc' = "clamped_any"
    /\ UNCHANGED <<n_chunks, token_count, budget>>
    /\ UNCHANGED <<summVars, classifyVars, batchVars, scrapeVars>>

ClampNext == ClampAny

SpecClamp == ClampInit /\ [][ClampNext]_vars

----------------------------------------------------------------------------
(* _map_to_urdu_category and classify_text.  A label is the sequence of    *)
(* its characters.                                                         *)

UpperCase == <<"A", "B", "C", "D", "E", "F", "G", "H", "I", "J", "K", "L", "M", "N", "O", "P", "Q", "R", "S", "T", "U", "V", "W", "X", "Y", "Z">>
LowerCase == <<"a", "b", "c", "d", "e", "f", "g", "h", "i", "j", "k", "l", "m", "n", "o", "p", "q", "r", "s", "t", "u", "v", "w", "x", "y", "z">>

(* str.lower() on one character and on a string.                           *)
LowerChar(c) ==
    IF \E k \in DOMAIN UpperCase : UpperCase[k] = c
    THEN LowerCase[CHOOSE k \in DOMAIN UpperCase : UpperCase[k] = c]
    ELSE c

Lower(str) == [k \in DOMAIN str |-> LowerChar(str[k])]

(* needle in hay                                                           *)
Contains(hay, needle) ==
    \E k \in 0..(Len(hay) - Len(needle)) :
        SubSeq(hay, k + 1, k + Len(needle)) = needle

MapToUrduCategoryNoLower(lbl) ==
    IF Contains(lbl, <<"s", "p", "o", "r", "t">>) THEN "khel"
    ELSE IF Contains(lbl, <<"t", "e", "c", "h">>) THEN "technology"
    ELSE IF Contains(lbl, <<"p", "o", "l", "i", "t">>) THEN "siyasat"
    ELSE IF Contains(lbl, <<"h", "e", "a", "l", "t", "h">>) THEN "sehat"
    ELSE IF Contains(lbl, <<"s", "c", "i", "e", "n", "c", "e">>) THEN "science"
    ELSE IF Contains(lbl, <<"w", "o", "r", "l", "d">>) THEN "aalmi"
    ELSE IF \/ Contains(lbl, <<"a", "r", "t">>)
            \/ Contains(lbl, <<"c", "u", "l", "t", "u", "r", "e">>) THEN "fan-o-saqafat"
    ELSE IF Contains(lbl, <<"b", "u", "s", "i", "n", "e", "s", "s">>) THEN "karobar"
    ELSE "deegar"

(* The if/elif chain on str(label).lower().                                *)
MapToUrduCategory(lbl) ==
    LET l == Lower(lbl)
    IN  IF Contains(l, <<"s", "p", "o", "r", "t">>) THEN "khel"
        ELSE IF Contains(l, <<"t", "e", "c", "h">>) THEN "technology"
        ELSE IF Contains(l, <<"p", "o", "l", "i", "t">>) THEN "siyasat"
        ELSE IF Contains(l, <<"h", "e", "a", "l", "t", "h">>) THEN "sehat"
        ELSE IF Contains(l, <<"s", "c", "i", "e", "n", "c", "e">>) THEN "science"
        ELSE IF Contains(l, <<"w", "o", "r", "l", "d">>) THEN "aalmi"
        ELSE IF \/ Contains(l, <<"a", "r", "t">>)
                \/ Contains(l, <<"c", "u", "l", "t", "u", "r", "e">>) THEN "fan-o-saqafat"
        ELSE IF Contains(l, <<"b", "u", "s", "i", "n", "e", "s", "s">>) THEN "karobar"
        ELSE "deegar"

(* What the tokenizer (in _truncate_text_to_tokens) and the classifier do  *)
(* in one classify_text call: the tokenizer works or raises; the           *)
(* classifier raises, returns an empty list, or returns a labelled result. *)
ClassifyEnvs ==
    [tokenizer_ok : BOOLEAN, classifier_does : {"raise", "empty", "label"}]

ClassifyFails(env) == ~env.tokenizer_ok \/ env.classifier_does # "label"

ClassifyTextNoExcept(loaded, env, lbl) ==
    IF ~loaded
    THEN [raised |-> TRUE, ret |-> "", classifier_calls |-> 0]
    ELSE IF ~env.tokenizer_ok
    THEN [raised |-> TRUE, ret |-> "", classifier_calls |-> 0]
    ELSE IF env.classifier_does # "label"
    THEN [raised |-> TRUE, ret |-> "", classifier_calls |-> 1]
    ELSE [raised |-> FALSE, ret |-> MapToUrduCategory(lbl), classifier_calls |-> 1]

(* classify_text: ValueError without a classifier; otherwise everything    *)
(* that raises inside the try block yields the catch-all tag.              *)
ClassifyText(loaded, env, lbl) ==
    IF ~loaded
    THEN [raised |-> TRUE, ret |-> "", classifier_calls |-> 0]
    ELSE IF ~env.tokenizer_ok
    THEN [raised |-> FALSE, ret |-> "deegar", classifier_calls |-> 0]
    ELSE IF env.classifier_does # "label"
    THEN [raised |-> FALSE, ret |-> "deegar", classifier_calls |-> 1]
    ELSE [raised |-> FALSE, ret |-> MapToUrduCategory(lbl), classifier_calls |-> 1]

RECURSIVE LabelsOf(_)
LabelsOf(n) ==
    IF n = 0 THEN {<<>>}
    ELSE LabelsOf(n - 1)
            \cup {l \o part : l \in LabelsOf(n - 1), part \in LabelParts}

Labels == LabelsOf(MaxLabelParts)

ClassifyInit ==
    /\ SummIdle
    /\ BudgetIdle
    /\ cpc = "start"
    /\ classifier \in BOOLEAN
    /\ label \in Labels
    /\ category = ""
    /\ classifier_calls = 0
    /\ BatchIdle
    /\ ScrapeIdle

(* A call of _map_to_urdu_category(label).                                 *)
MapLabel ==
    /\ cpc = "start"
    /\ category' = MapToUrduCategory(label)
    /\ cpc' = "mapped"
    /\ UNCHANGED <<classifier, label, classifier_calls>>
    /\ UNCHANGED <<summVars, budgetVars, batchVars, scrapeVars>>

(* A call of classify_text whose classifier yields label.                  *)
Classify ==
    /\ cpc = "start"
    /\ \E env \in ClassifyEnvs :
         LET r == ClassifyText(classifier, env, label)
         IN  /\ category' = r.ret
             /\ classifier_calls' = r.classifier_calls
             /\ cpc' = IF r.raised THEN "raised"
                       ELSE IF ClassifyFails(env) THEN "returned_after_failure"
                       ELSE "returned"
    /\ UNCHANGED <<classifier, label>>
    /\ UNCHANGED <<summVars, budgetVars, batchVars, scrapeVars>>

ClassifyNext == MapLabel \/ Classify

SpecClassify == ClassifyInit /\ [][ClassifyNext]_vars

----------------------------------------------------------------------------
(* process_files.  A file has a name that ends in .txt or not, can be read *)
(* or not, and has a content, the sequence of its characters.              *)

Whitespace == {" ", "\n"}

StripNothing(str) == str

(* str.strip()                                                             *)
RECURSIVE Strip(_)
Strip(str) ==
    IF str = <<>> THEN <<>>
    ELSE IF Head(str) \in Whitespace THEN Strip(Tail(str))
    ELSE IF str[Len(str)] \in Whitespace
    THEN Strip(SubSeq(str, 1, Len(str) - 1))
    ELSE str

FileKinds ==
    {[txt |-> FALSE, readable |-> TRUE, content |-> <<"x">>],
     [txt |-> TRUE, readable |-> FALSE, content |-> <<"x">>],
     [txt |-> TRUE, readable |-> TRUE, content |-> <<>>],
     [txt |-> TRUE, readable |-> TRUE, content |-> <<" ", "\n">>],
     [txt |-> TRUE, readable |-> TRUE, content |-> <<" ", "x", "y", "\n">>]}

(* The labels the classifier yields during a batch.                        *)
BatchLabels == {<<"s", "p", "o", "r", "t", "s">>,
                <<"L", "A", "B", "E", "L", "_", "0">>}

(* What the tokenizer and the summarizer do in one summarize_text call:    *)
(* the tokenizer works or raises, and otherwise the call ends in one of    *)
(* its three results.                                                      *)
SummarizeEnvs ==
    [tokenizer_ok : BOOLEAN, outcome : {"summary", "too_short", "no_summary"}]

SummarizeTextCatchesTokenizer(loaded, env) ==
    IF ~loaded
    THEN [raised |-> TRUE, tokenizer_raised |-> FALSE, ret |-> <<>>]
    ELSE IF ~env.tokenizer_ok
    THEN [raised |-> FALSE, tokenizer_raised |-> TRUE,
          ret |-> PLACEHOLDER_NO_SUMMARY]
    ELSE [raised |-> FALSE, tokenizer_raised |-> FALSE,
          ret |-> CASE env.outcome = "summary" -> <<"summary">>
                    [] env.outcome = "too_short" -> PLACEHOLDER_TOO_SHORT
                    [] env.outcome = "no_summary" -> PLACEHOLDER_NO_SUMMARY]

(* summarize_text as process_files sees it: ValueError without a           *)
(* summarizer, the tokenizer's exception when it raises (no call of the    *)
(* tokenizer is inside a try block), else a summary or a placeholder.      *)
SummarizeText(loaded, env) ==
    IF ~loaded
    THEN [raised |-> TRUE, tokenizer_raised |-> FALSE, ret |-> <<>>]
    ELSE IF ~env.tokenizer_ok
    THEN [raised |-> TRUE, tokenizer_raised |-> TRUE, ret |-> <<>>]
    ELSE [raised |-> FALSE, tokenizer_raised |-> FALSE,
          ret |-> CASE env.outcome = "summary" -> <<"summary">>
                    [] env.outcome = "too_short" -> PLACEHOLDER_TOO_SHORT
                    [] env.outcome = "no_summary" -> PLACEHOLDER_NO_SUMMARY]

NoEvent ==
    [outcome |-> "not_txt", raised_in |-> "none",
     tokenizer_raised_in |-> {}, classifier_calls |-> 0,
     summarize_called |-> FALSE, record |-> <<>>]

(* The body of the try block for one .txt file: outcome "ok" with the      *)
(* record to append, "empty" for the continue, "error" with the call that  *)
(* raised.                                                                 *)
TryBody(file, name, cenv, senv, lbl) ==
    IF ~file.readable
    THEN [NoEvent EXCEPT !.outcome = "error", !.raised_in = "read"]
    ELSE
    LET stripped == Strip(file.content)
        c == ClassifyText(classifier, cenv, lbl)
        ctok == IF classifier /\ ~cenv.tokenizer_ok THEN {"classify"} ELSE {}
        sm == SummarizeText(summarizer, senv)
        stok == IF sm.tokenizer_raised THEN {"summarize"} ELSE {}
    IN  IF stripped = <<>>
        THEN [NoEvent EXCEPT !.outcome = "empty"]
        ELSE IF c.raised
        THEN [NoEvent EXCEPT !.outcome = "error", !.raised_in = "classify",
                             !.tokenizer_raised_in = ctok,
                             !.classifier_calls = c.classifier_calls]
        ELSE IF sm.raised
        THEN [NoEvent EXCEPT !.outcome = "error", !.raised_in = "summarize",
                             !.tokenizer_raised_in = ctok \cup stok,
                             !.classifier_calls = c.classifier_calls,
                             !.summarize_called = TRUE]
        ELSE [NoEvent EXCEPT
                !.outcome = "ok",
                !.tokenizer_raised_in = ctok \cup stok,
                !.classifier_calls = c.classifier_calls,
                !.summarize_called = TRUE,
                !.record =
                    <<[file_name |-> name,
                       category_urdu |-> c.ret,
                       category_english |->
                           IF c.ret \in DOMAIN CATEGORY_MAP
                           THEN CATEGORY_MAP[c.ret] ELSE "other",
                       summary |-> sm.ret,
                       text_length |-> Len(stripped)]>>]

RECURSIVE FileSeqs(_)
FileSeqs(n) ==
    IF n = 0 THEN {<<>>}
    ELSE FileSeqs(n - 1)
            \cup {Append(fs, f) : fs \in FileSeqs(n - 1), f \in FileKinds}

BatchInit ==
    /\ SummIdle
    /\ BudgetIdle
    /\ cpc = "idle"
    /\ classifier \in BOOLEAN
    /\ label = <<>>
    /\ category = ""
    /\ classifier_calls = 0
    /\ fpc = "start"
    /\ dir_exists \in BOOLEAN
    /\ summarizer \in BOOLEAN
    /\ files \in FileSeqs(MaxFiles)
    /\ file_index = 1
    /\ results = <<>>
    /\ processed_files = 0
    /\ events = <<>>
    /\ ScrapeIdle

(* The articles directory does not exist: an empty frame is returned.      *)
DirectoryNotFound ==
    /\ fpc = "start"
    /\ ~dir_exists
    /\ fpc' = "returned"
    /\ UNCHANGED <<dir_exists, summarizer, files, file_index, results,
                   processed_files, events>>
    /\ UNCHANGED <<summVars, budgetVars, classifyVars, scrapeVars>>

StartWalk ==
    /\ fpc = "start"
    /\ dir_exists
    /\ fpc' = "walk"
    /\ UNCHANGED <<dir_exists, summarizer, files, file_index, results,
                   processed_files, events>>
    /\ UNCHANGED <<summVars, budgetVars, classifyVars, scrapeVars>>

ProcessFileNoExcept ==
    /\ fpc = "walk"
    /\ file_index <= Len(files)
    /\ \E cenv \in ClassifyEnvs, senv \in SummarizeEnvs, lbl \in BatchLabels :
         LET file == files[file_index]
             e == IF file.txt
                  THEN TryBody(file, file_index, cenv, senv, lbl)
                  ELSE NoEvent
         IN  /\ events' = Append(events, e)
             /\ results' = results \o e.record
             /\ processed_files' = processed_files + Len(e.record)
             /\ fpc' = IF e.outcome = "error" THEN "crashed" ELSE "walk"
    /\ file_index' = file_index + 1
    /\ UNCHANGED <<dir_exists, summarizer, files>>
    /\ UNCHANGED <<summVars, budgetVars, classifyVars, scrapeVars>>

(* One iteration of the walk: a file that is not .txt is passed over, a    *)
(* .txt file runs the try block, and an exception is caught and logged.    *)
ProcessFile ==
    /\ fpc = "walk"
    /\ file_index <= Len(files)
    /\ \E cenv \in ClassifyEnvs, senv \in SummarizeEnvs, lbl \in BatchLabels :
         LET file == files[file_index]
             e == IF file.txt
                  THEN TryBody(file, file_index, cenv, senv, lbl)
                  ELSE NoEvent
         IN  /\ events' = Append(events, e)
             /\ results' = results \o e.record
             /\ processed_files' = processed_files + Len(e.record)
             /\ fpc' = "walk"
    /\ file_index' = file_index + 1
    /\ UNCHANGED <<dir_exists, summarizer, files>>
    /\ UNCHANGED <<summVars, budgetVars, classifyVars, scrapeVars>>

(* The walk is over: the frame of the records is returned.                 *)
ReturnResults ==
    /\ fpc = "walk"
    /\ file_index > Len(files)
    /\ fpc' = "returned"
    /\ UNCHANGED <<dir_exists, summarizer, files, file_index, results,
                   processed_files, events>>
    /\ UNCHANGED <<summVars, budgetVars, classifyVars, scrapeVars>>

BatchNext == DirectoryNotFound \/ StartWalk \/ ProcessFile \/ ReturnResults

SpecBatch == BatchInit /\ [][BatchNext]_vars

----------------------------------------------------------------------------
(* scraper.py: scrape_month and scrape_blog_post.  The site is outside the *)
(* program: each GET fails or yields a page with some posts, some          *)
(* blog-post links and possibly an older-posts link, which may lead back   *)
(* to a page already seen.                                                 *)

NoUrl == "none"
Urls == {"month_page_a", "month_page_b"}

LoopContinuesOffByOne(url, count) ==
    url # NoUrl /\ count <= max_pages_per_month

(* while current_url and page_count < max_pages_per_month                  *)
LoopContinues(url, count) ==
    url # NoUrl /\ count < max_pages_per_month

(* requests.get: a GET that follows a GET with no sleep between is noted.  *)
Get ==
    /\ last_event' = "get"
    /\ back_to_back' = (back_to_back \/ last_event = "get")

(* time.sleep(DELAY_BETWEEN_REQUESTS)                                      *)
Sleep ==
    /\ last_event' = "sleep"
    /\ back_to_back' = back_to_back

(* requests.get, then later time.sleep(DELAY_BETWEEN_REQUESTS)             *)
GetThenSleep ==
    /\ last_event' = "sleep"
    /\ back_to_back' = (back_to_back \/ last_event = "get")

ScrapeInit ==
    /\ SummIdle
    /\ BudgetIdle
    /\ ClassifyIdle
    /\ BatchIdle
    /\ spc = "loop"
    /\ current_url \in Urls
    /\ page_count = 0
    /\ links_left = 0
    /\ articles = 0
    /\ pages_fetched = 0
    /\ last_event = "none"
    /\ back_to_back = FALSE
    /\ returned = -1

(* The GET of a month page and the loop over its posts: a request error    *)
(* breaks out at once, a processing error after some posts were appended.  *)
FetchPage ==
    /\ spc = "loop"
    /\ LoopContinues(current_url, page_count)
    /\ Get
    /\ pages_fetched' = pages_fetched + 1
    /\ \E outcome \in {"request_error", "processing_error", "ok"},
          posts \in 0..MaxPagePosts, links \in 0..MaxLinks :
         CASE outcome = "request_error" ->
                /\ articles' = articles
                /\ links_left' = 0
                /\ spc' = "break"
           [] outcome = "processing_error" ->
                /\ articles' = articles + posts
                /\ links_left' = 0
                /\ spc' = "break"
           [] outcome = "ok" ->
                /\ articles' = articles + posts
                /\ links_left' = links
                /\ spc' = "links"
    /\ UNCHANGED <<current_url, page_count, returned>>
    /\ UNCHANGED <<summVars, budgetVars, classifyVars, batchVars>>

(* One blog-post link of the page: scrape_blog_post issues its GET, then   *)
(* returns the saved post's data, or sleeps and returns None when the page *)
(* holds no post to save, or catches the exception and returns None.       *)
ScrapeBlogPost ==
    /\ spc = "links"
    /\ links_left > 0
    /\ \E outcome \in {"saved", "nothing", "error"} :
         /\ articles' = IF outcome = "saved" THEN articles + 1 ELSE articles
         /\ IF outcome = "nothing" THEN GetThenSleep ELSE Get
    /\ links_left' = links_left - 1
    /\ UNCHANGED <<spc, current_url, page_count, pages_fetched, returned>>
    /\ UNCHANGED <<summVars, budgetVars, classifyVars, batchVars>>

(* The older-posts link, page_count += 1 and the sleep; an exception while *)
(* reading the link breaks out of the loop.                                *)
NextPage ==
    /\ spc = "links"
    /\ links_left = 0
    /\ \/ /\ \E next \in Urls \cup {NoUrl} : current_url' = next
          /\ page_count' = page_count + 1
          /\ Sleep
          /\ spc' = "loop"
       \/ /\ spc' = "break"
          /\ UNCHANGED <<current_url, page_count, last_event, back_to_back>>
    /\ UNCHANGED <<links_left, articles, pages_fetched, returned>>
    /\ UNCHANGED <<summVars, budgetVars, classifyVars, batchVars>>

(* return articles, after the loop ended or was broken out of.             *)
ReturnArticles ==
    /\ \/ spc = "break"
       \/ spc = "loop" /\ ~LoopContinues(current_url, page_count)
    /\ returned' = articles
    /\ spc' = "returned"
    /\ UNCHANGED <<current_url, page_count, links_left, articles,
                   pages_fetched, last_event, back_to_back>>
    /\ UNCHANGED <<summVars, budgetVars, classifyVars, batchVars>>

ScrapeNext == FetchPage \/ ScrapeBlogPost \/ NextPage \/ ReturnArticles

SpecScrape == ScrapeInit /\ [][ScrapeNext]_vars

(* scrape_month runs as one sequential call: while a step is possible the  *)
(* next step is taken.                                                     *)
SpecScrapeLive == ScrapeInit /\ [][ScrapeNext]_vars /\ WF_vars(ScrapeNext)

----------------------------------------------------------------------------
(* The structural units the splitting yields for a text: with several      *)
(* paragraphs, each paragraph that fits and each sentence of a paragraph   *)
(* that does not; with one paragraph, its sentences.                       *)
StructuralUnits(t) ==
    IF Len(t) > 1
    THEN Flatten([p \in 1..Len(t) |->
                    IF ParaCount(t[p]) > MAX_SUMMARIZATION_TOKENS
                    THEN SentUnits(t, p)
                    ELSE <<ParaUnit(t, p)>>])
    ELSE SentUnits(t, 1)

Range(f) == {f[k] : k \in DOMAIN f}

UnitSum(chunk) == SumSeq(Lens(chunk))

(* The chunks that hold unit u, one entry per occurrence.                   *)
Occurrences(cs, u) ==
    LET flat == Flatten([i \in DOMAIN cs |-> [j \in DOMAIN cs[i] |-> <<i, cs[i][j]>>]])
    IN  SelectSeq(flat, LAMBDA e : e[2] = u)

Failed(call) == call.raised \/ call.summary_text = <<>>

----------------------------------------------------------------------------
(* C1: every chunk the packer returns either has a combined unit token     *)
(* count of at most MAX_SUMMARIZATION_TOKENS, or is exactly one sentence   *)
(* whose own token count exceeds MAX_SUMMARIZATION_TOKENS.                 *)
C1_PackingBudget ==
    chunked =>
        \A i \in DOMAIN chunks :
            \/ UnitSum(chunks[i]) <= MAX_SUMMARIZATION_TOKENS
            \/ /\ Len(chunks[i]) = 1
               /\ chunks[i][1].s # 0
               /\ chunks[i][1].len > MAX_SUMMARIZATION_TOKENS

C1_Witness ==
    /\ chunked
    /\ \E i \in DOMAIN chunks :
          Len(chunks[i]) = 1 /\ chunks[i][1].len > MAX_SUMMARIZATION_TOKENS
    /\ \E i \in DOMAIN chunks :
          Len(chunks[i]) >= 2 /\ UnitSum(chunks[i]) > 0

(* C2: every structural unit of the text is placed in exactly one chunk,   *)
(* at exactly one position, and the chunks hold nothing else.              *)
C2_NoLoss ==
    chunked =>
        LET units == StructuralUnits(text)
        IN  /\ \A k \in DOMAIN units : Len(Occurrences(chunks, units[k])) = 1
            /\ \A i \in DOMAIN chunks : Range(chunks[i]) \subseteq Range(units)

C2_Witness ==
    /\ chunked
    /\ Len(chunks) >= 2
    /\ Len(StructuralUnits(text)) >= 3

(* C3: the chunks concatenated in emission order are the structural units  *)
(* of the text in their original order.                                    *)
C3_OrderPreserved ==
    chunked => Flatten(chunks) = StructuralUnits(text)

C3_Witness ==
    /\ chunked
    /\ Len(text) > 1
    /\ \E i \in DOMAIN chunks : Len(chunks[i]) >= 2
    /\ \E p \in DOMAIN text : ParaCount(text[p]) > MAX_SUMMARIZATION_TOKENS

(* C4 as stated: a document of at most MAX_SUMMARIZATION_TOKENS tokens     *)
(* gets exactly one summarizer call, with the full document text, and is   *)
(* never chunked.                                                          *)
C4_SingleCallAsStated ==
    TextCount(text) <= MAX_SUMMARIZATION_TOKENS =>
        /\ ~chunked
        /\ pc = "done" =>
              /\ Len(calls) = 1
              /\ calls[1].kind = "document"
              /\ calls[1].units = DocUnits(text)

(* C4 amended: a document of at least MIN_CHUNK_LENGTH and at most         *)
(* MAX_SUMMARIZATION_TOKENS tokens is first submitted whole, once; when    *)
(* that call returns a non-empty summary it stays the only call, its       *)
(* summary is returned and the text is never chunked.                      *)
C4_SingleCall ==
    /\ (/\ pc # "start"
        /\ TextCount(text) >= MIN_CHUNK_LENGTH
        /\ TextCount(text) <= MAX_SUMMARIZATION_TOKENS)
       => /\ calls # <<>>
          /\ calls[1].kind = "document"
          /\ calls[1].units = DocUnits(text)
          /\ calls[1].token_count = TextCount(text)
    /\ (/\ calls # <<>>
        /\ calls[1].kind = "document"
        /\ ~Failed(calls[1]))
       => /\ Len(calls) = 1
          /\ ~chunked
          /\ pc = "done"
          /\ result = calls[1].summary_text

C4_Witness ==
    /\ pc = "done"
    /\ Len(text) > 1
    /\ Len(calls) = 1
    /\ calls[1].kind = "document"
    /\ result = calls[1].summary_text
    /\ ~chunked

(* C5: for every number n > 0 of viable chunks the requested per-chunk     *)
(* budget has min_length < max_length and max_length > 0.                  *)
C5_BudgetSanity ==
    bpc \in {"requested_chunk", "clamped_chunk"} =>
        /\ budget.min_length < budget.max_length
        /\ budget.max_length > 0

(* C7: when every chunk of the text is below MIN_CHUNK_LENGTH tokens,      *)
(* summarize_text returns the "too short" placeholder and the summarizer   *)
(* was never called.                                                       *)
C7_TooShort ==
    LET cs == ChunkTextForSummarization(text)
    IN  (/\ pc = "done"
         /\ \A i \in DOMAIN cs : ChunkCount(cs[i]) < MIN_CHUNK_LENGTH)
        => /\ result = PLACEHOLDER_TOO_SHORT
           /\ calls = <<>>

C7_Witness ==
    /\ pc = "done"
    /\ chunked
    /\ Len(chunks) >= 1
    /\ Len(StructuralUnits(text)) >= 2
    /\ valid_chunks = <<>>
    /\ result = PLACEHOLDER_TOO_SHORT

(* C8: with at least one viable chunk and every summarizer call failing    *)
(* (raising or returning an empty text), summarize_text returns the second *)
(* placeholder, which differs from the "too short" placeholder.            *)
C8_NoSummary ==
    (/\ pc = "done"
     /\ valid_chunks # <<>>
     /\ \A k \in DOMAIN calls : Failed(calls[k]))
    => /\ result = PLACEHOLDER_NO_SUMMARY
       /\ result # PLACEHOLDER_TOO_SHORT

C8_Witness ==
    /\ pc = "done"
    /\ Len(valid_chunks) >= 2
    /\ Len(calls) >= 2
    /\ \E k \in DOMAIN calls : calls[k].raised
    /\ \E k \in DOMAIN calls : ~calls[k].raised
    /\ \A k \in DOMAIN calls : Failed(calls[k])
    /\ result = PLACEHOLDER_NO_SUMMARY

(* The scenario of C9: two paragraphs, the first fits the maximum, the     *)
(* second alone exceeds it while each of its sentences fits.               *)
C9_Scenario ==
    /\ chunked
    /\ Len(text) = 2
    /\ ParaCount(text[1]) <= MAX_SUMMARIZATION_TOKENS
    /\ ParaCount(text[2]) > MAX_SUMMARIZATION_TOKENS
    /\ \A j \in DOMAIN text[2] : text[2][j] <= MAX_SUMMARIZATION_TOKENS

C10_TokenCeiling ==
    \A k \in DOMAIN calls : calls[k].token_count <= MAX_SUMMARIZATION_TOKENS

----------------------------------------------------------------------------
ChunkCalls == SelectSeq(calls, LAMBDA c : c.kind = "chunk")

IsPlaceholder(r) == r = PLACEHOLDER_TOO_SHORT \/ r = PLACEHOLDER_NO_SUMMARY

(* The summary obtained for the i-th viable chunk, empty when its call     *)
(* failed or was not made.                                                 *)
ChunkSummaryText(i) ==
    LET ks == {k \in DOMAIN calls :
                  /\ calls[k].kind = "chunk"
                  /\ calls[k].units = valid_chunks[i]
                  /\ ~Failed(calls[k])}
    IN  IF ks = {} THEN <<>> ELSE calls[CHOOSE k \in ks : TRUE].summary_text

(* C11: whenever the chunked path returns a summary (not a placeholder),   *)
(* every structural unit of the text belongs to a chunk that was submitted *)
(* to the summarizer.                                                      *)
C11_NoContentDropped ==
    (pc = "done" /\ chunked /\ ~IsPlaceholder(result)) =>
        LET units == StructuralUnits(text)
        IN  \A n \in DOMAIN units :
                \E k \in DOMAIN calls :
                    /\ calls[k].kind = "chunk"
                    /\ units[n] \in Range(calls[k].units)

(* C12: an exception raised by the summarizer never leaves                 *)
(* _safe_summarize: the call returns None and summarize_text goes on, to   *)
(* the chunked path after the whole-document call and to the last chunk    *)
(* in the loop.                                                            *)
C12_ExceptionContained ==
    /\ pc # "raised"
    /\ \A k \in DOMAIN calls :
          calls[k].raised =>
              /\ calls[k].ret = None
              /\ calls[k].kind = "document" => pc # "start"
    /\ (pc = "done" /\ \E k \in DOMAIN calls : calls[k].raised) =>
          /\ chunked
          /\ valid_chunks # <<>> => idx = Len(valid_chunks) + 1

C12_Witness ==
    /\ pc = "done"
    /\ Len(calls) = 3
    /\ calls[1].kind = "chunk"
    /\ calls[1].raised
    /\ calls[1].ret = None
    /\ calls[2].raised
    /\ ~Failed(calls[3])
    /\ result = calls[3].summary_text

(* C13: in the chunked path the summarizer is invoked exactly once for     *)
(* each viable chunk, in chunk order, whatever the earlier calls did.      *)
C13_OncePerChunk ==
    /\ [k \in DOMAIN ChunkCalls |-> ChunkCalls[k].units]
          = SubSeq(valid_chunks, 1, idx - 1)
    /\ (pc = "done" /\ valid_chunks # <<>>) => idx = Len(valid_chunks) + 1

C13_Witness ==
    /\ pc = "done"
    /\ Len(valid_chunks) = 3
    /\ Len(ChunkCalls) = 3
    /\ ChunkCalls[1].raised
    /\ Failed(ChunkCalls[2])
    /\ ~Failed(ChunkCalls[3])

(* C14: the string returned by the chunked path is the summaries of the    *)
(* viable chunks whose call succeeded, in the order of their chunks,       *)
(* joined by a single space.                                               *)
C14_JoinInOrder ==
    (pc = "done" /\ chunk_summaries # <<>>) =>
        result = Flatten([i \in DOMAIN valid_chunks |-> ChunkSummaryText(i)])

C14_Witness ==
    /\ pc = "done"
    /\ Len(valid_chunks) = 3
    /\ Len(chunk_summaries) = 2
    /\ Failed(ChunkCalls[2])
    /\ result = ChunkCalls[1].summary_text \o ChunkCalls[3].summary_text

(* C20: with the summarizer initialized and a tokenizer that does not      *)
(* fail, summarize_text never raises, always has a next step until it     *)
(* returns, and                                                            *)
(* returns a non-empty string: the "too short" placeholder when no chunk   *)
(* is viable, the "no summary" placeholder when every call for the viable  *)
(* chunks failed, a summary made of successful calls' texts otherwise.     *)
C20_ThreeOutcomes ==
    /\ pc # "raised"
    /\ pc # "done" =>
          \/ pc \in {"start", "chunk"}
          \/ pc = "loop" /\ idx \in 1..(Len(valid_chunks) + 1)
    /\ pc = "done" =>
          /\ result # <<>>
          /\ \/ result = PLACEHOLDER_TOO_SHORT /\ chunked /\ valid_chunks = <<>>
             \/ /\ result = PLACEHOLDER_NO_SUMMARY
                /\ valid_chunks # <<>>
                /\ \A k \in DOMAIN calls : Failed(calls[k])
             \/ /\ ~IsPlaceholder(result)
                /\ \E k \in DOMAIN calls :
                      /\ ~Failed(calls[k])
                      /\ calls[k].summary_text # <<>>
                      /\ SubSeq(result, 1, Len(calls[k].summary_text))
                            = calls[k].summary_text

C20_Witness ==
    /\ pc = "done"
    /\ Len(calls) >= 2
    /\ calls[1].kind = "document"
    /\ ~calls[1].raised
    /\ calls[1].summary_text = <<>>
    /\ ~IsPlaceholder(result)

----------------------------------------------------------------------------
(* The keyword groups in the order they are tested, with their tags.       *)
KeywordGroups ==
    <<[tag |-> "khel", keywords |-> {<<"s", "p", "o", "r", "t">>}],
      [tag |-> "technology", keywords |-> {<<"t", "e", "c", "h">>}],
      [tag |-> "siyasat", keywords |-> {<<"p", "o", "l", "i", "t">>}],
      [tag |-> "sehat", keywords |-> {<<"h", "e", "a", "l", "t", "h">>}],
      [tag |-> "science", keywords |-> {<<"s", "c", "i", "e", "n", "c", "e">>}],
      [tag |-> "aalmi", keywords |-> {<<"w", "o", "r", "l", "d">>}],
      [tag |-> "fan-o-saqafat",
       keywords |-> {<<"a", "r", "t">>, <<"c", "u", "l", "t", "u", "r", "e">>}],
      [tag |-> "karobar", keywords |-> {<<"b", "u", "s", "i", "n", "e", "s", "s">>}]>>

(* Groups with a keyword that occurs in the label, letter case ignored.    *)
MatchingGroups(lbl) ==
    {g \in DOMAIN KeywordGroups :
        \E kw \in KeywordGroups[g].keywords : Contains(Lower(lbl), kw)}

FirstGroupTag(lbl) ==
    IF MatchingGroups(lbl) = {} THEN "deegar"
    ELSE KeywordGroups[CHOOSE g \in MatchingGroups(lbl) :
                          \A h \in MatchingGroups(lbl) : g <= h].tag

(* C18: _map_to_urdu_category returns, for every label, a key of           *)
(* CATEGORY_MAP: the tag of the first keyword group (in the order sport,   *)
(* tech, polit, health, science, world, art/culture, business) one of      *)
(* whose keywords occurs in the label case-insensitively, and the          *)
(* catch-all tag when none does.                                           *)
C18_MapToCategory ==
    cpc = "mapped" =>
        /\ category \in DOMAIN CATEGORY_MAP
        /\ category = FirstGroupTag(label)

C18_Witness ==
    /\ cpc = "mapped"
    /\ Cardinality(MatchingGroups(label)) = 2
    /\ label # Lower(label)
    /\ category = "technology"

(* C19: with a classifier set, classify_text never raises; when the        *)
(* truncation, the classifier call or the label extraction fails it        *)
(* returns the catch-all tag, otherwise the mapped label; the classifier   *)
(* is invoked at most once.                                                *)
C19_ClassifyNeverRaises ==
    (classifier /\ cpc \notin {"start", "mapped"}) =>
        /\ cpc # "raised"
        /\ classifier_calls <= 1
        /\ cpc = "returned_after_failure" => category = "deegar"
        /\ cpc = "returned" =>
              category = MapToUrduCategory(label) /\ classifier_calls = 1

C19_Witness ==
    /\ classifier
    /\ cpc = "returned_after_failure"
    /\ classifier_calls = 1
    /\ MapToUrduCategory(label) # "deegar"
    /\ category = "deegar"

----------------------------------------------------------------------------
(* The records of the files visited so far whose processing raised         *)
(* nothing, in walk order.                                                 *)
RecordedFiles == [k \in DOMAIN results |-> results[k].file_name]

Indices(n) == [k \in 1..n |-> k]

HasRecord(k) == \E r \in DOMAIN results : results[r].file_name = k

WalkCompletes ==
    /\ fpc # "crashed"
    /\ fpc = "walk" => file_index = Len(events) + 1
    /\ (fpc = "returned" /\ dir_exists) => Len(events) = Len(files)

(* C15: whatever exception reading, classifying or summarizing one file    *)
(* raises, process_files goes on to every later file and returns normally  *)
(* with the records of exactly the documents that succeeded, in walk order.*)
C15_BatchSurvives ==
    /\ WalkCompletes
    /\ \A k \in DOMAIN events :
         events[k].raised_in # "none" => ~HasRecord(k)
    /\ RecordedFiles =
         SelectSeq(Indices(Len(events)),
                   LAMBDA k : /\ events[k].outcome = "ok"
                              /\ events[k].raised_in = "none")

C15_Witness ==
    /\ fpc = "returned"
    /\ Len(events) = 3
    /\ events[1].raised_in = "read"
    /\ events[2].raised_in = "summarize"
    /\ events[3].outcome = "ok"
    /\ RecordedFiles = <<3>>

(* C16 as stated: a tokenizer failure at any point of a document leaves    *)
(* the document without a result record.                                   *)
C16_TokenizerAbortsAsStated ==
    \A k \in DOMAIN events :
        events[k].tokenizer_raised_in # {} => ~HasRecord(k)

(* C16: a tokenizer failure inside summarize_text aborts the document (no  *)
(* result record); a tokenizer failure inside classify_text is caught      *)
(* there, so that a document whose summarizing then succeeds is recorded   *)
(* with the catch-all category; either way the batch goes on with the next *)
(* file.                                                                   *)
C16_TokenizerAborts ==
    /\ WalkCompletes
    /\ \A k \in DOMAIN events :
         /\ "summarize" \in events[k].tokenizer_raised_in =>
               (events[k].outcome = "error" /\ ~HasRecord(k))
         /\ (events[k].tokenizer_raised_in = {"classify"}
                /\ events[k].raised_in = "none") =>
               \E r \in DOMAIN results :
                   /\ results[r].file_name = k
                   /\ results[r].category_urdu = "deegar"
                   /\ events[k].classifier_calls = 0

C16_Witness ==
    /\ fpc = "returned"
    /\ Len(events) = 3
    /\ events[1].tokenizer_raised_in = {"classify", "summarize"}
    /\ events[2].tokenizer_raised_in = {"classify"}
    /\ events[2].outcome = "ok"
    /\ events[3].tokenizer_raised_in = {}
    /\ RecordedFiles = <<2, 3>>

IsBlank(content) == \A k \in DOMAIN content : content[k] \in Whitespace

(* C17: a readable .txt file whose text is empty after trimming is         *)
(* skipped: no classifier call, no summarize call, no result record, no    *)
(* exception, and the walk goes on with the following files.               *)
C17_EmptySkipped ==
    /\ WalkCompletes
    /\ \A k \in DOMAIN events :
         (files[k].txt /\ files[k].readable /\ IsBlank(files[k].content)) =>
             /\ events[k].outcome = "empty"
             /\ events[k].raised_in = "none"
             /\ events[k].classifier_calls = 0
             /\ ~events[k].summarize_called
             /\ ~HasRecord(k)

C17_Witness ==
    /\ fpc = "returned"
    /\ Len(events) = 3
    /\ files[1].content = <<>> /\ files[1].txt
    /\ files[2].content = <<" ", "\n">>
    /\ events[2].outcome = "empty"
    /\ RecordedFiles = <<3>>
    /\ results[1].text_length = 2

----------------------------------------------------------------------------
(* C21: every (min_length, max_length) pair handed to the summarizer has   *)
(* min_length < max_length and min_length at least the floor: 15 in a      *)
(* per-chunk call, MIN_SUMMARY_LENGTH in the whole-document call.          *)
C21_InvokedBounds ==
    /\ bpc = "clamped_chunk" =>
          /\ bounds.actual_min < bounds.actual_max
          /\ bounds.actual_min >= 15
    /\ bpc = "clamped_global" =>
          /\ bounds.actual_min < bounds.actual_max
          /\ bounds.actual_min >= MIN_SUMMARY_LENGTH

(* C22: the packer closes a chunk only in front of a unit that would take  *)
(* it strictly above MAX_SUMMARIZATION_TOKENS, so a unit that fills the    *)
(* chunk exactly stays in it.                                              *)
C22_ExactFill ==
    chunked =>
        \A i \in DOMAIN chunks :
            i < Len(chunks) =>
                UnitSum(chunks[i]) + chunks[i + 1][1].len
                    > MAX_SUMMARIZATION_TOKENS

C22_Witness ==
    /\ chunked
    /\ \E i \in DOMAIN chunks :
          /\ Len(chunks[i]) >= 2
          /\ chunks[i][Len(chunks[i])].len > 0
          /\ UnitSum(chunks[i]) = MAX_SUMMARIZATION_TOKENS

(* The max_length a call of the given kind requests of _safe_summarize.    *)
RequestedMax(call) ==
    IF call.kind = "document" THEN MAX_SUMMARY_LENGTH
    ELSE MAX_SUMMARY_LENGTH \div Len(valid_chunks)

(* C23: every summarizer call is on a text of at least MIN_CHUNK_LENGTH    *)
(* tokens with max_length = min(requested max_length, token count); a      *)
(* document below MIN_CHUNK_LENGTH tokens gets None without a call, so     *)
(* summarize_text goes on to chunking.                                     *)
C23_CallsAboveMinimum ==
    /\ \A k \in DOMAIN calls :
          /\ calls[k].token_count >= MIN_CHUNK_LENGTH
          /\ calls[k].max_length
                = Min(RequestedMax(calls[k]), calls[k].token_count)
    /\ (pc # "start" /\ TextCount(text) < MIN_CHUNK_LENGTH) =>
          /\ chunked \/ pc = "chunk"
          /\ \A k \in DOMAIN calls : calls[k].kind # "document"

C23_Witness ==
    /\ pc = "done"
    /\ TextCount(text) < MIN_CHUNK_LENGTH
    /\ Len(StructuralUnits(text)) >= 2
    /\ chunked
    /\ calls = <<>>

(* C24: every per-chunk call of one document is made with the budget       *)
(* ChunkBudget(number of viable chunks), whatever the number of chunks the *)
(* packer emitted.                                                         *)
C24_BudgetFromViable ==
    \A k \in DOMAIN ChunkCalls :
        LET b == ChunkBudget(Len(valid_chunks))
            c == ChunkCalls[k]
        IN  /\ c.max_length = Min(b.max_length, c.token_count)
            /\ c.min_length = Min(b.min_length, c.max_length - 1)

C24_Witness ==
    /\ pc = "done"
    /\ Len(chunks) = 3
    /\ Len(valid_chunks) = 2
    /\ Len(ChunkCalls) = 2
    /\ ChunkCalls[1].max_length = 60
    /\ ChunkCalls[2].max_length = 60
    /\ ChunkCalls[1].min_length = ChunkCalls[2].min_length

(* C25: with additive token counts (joining adds no token) and             *)
(* MAX_SUMMARIZATION_TOKENS >= 2 * MIN_CHUNK_LENGTH, summarize_text        *)
(* returns the "too short" placeholder exactly when the whole document is  *)
(* below MIN_CHUNK_LENGTH tokens.                                          *)
C25_TooShortIff ==
    (/\ pc = "done"
     /\ sepCost = 0
     /\ MAX_SUMMARIZATION_TOKENS >= 2 * MIN_CHUNK_LENGTH) =>
        (result = PLACEHOLDER_TOO_SHORT
            <=> TextCount(text) < MIN_CHUNK_LENGTH)

C25_Witness ==
    /\ pc = "done"
    /\ sepCost = 0
    /\ chunked
    /\ TextCount(text) >= MIN_CHUNK_LENGTH
    /\ \E i \in DOMAIN chunks : ChunkCount(chunks[i]) < MIN_CHUNK_LENGTH
    /\ \E i \in DOMAIN valid_chunks :
          ChunkCount(valid_chunks[i]) = MIN_CHUNK_LENGTH
    /\ result # PLACEHOLDER_TOO_SHORT

(* C26: after actual_min = min(min_length, actual_max - 1) the test        *)
(* actual_min >= actual_max is false for all integers, so actual_min is    *)
(* never reset to max(10, actual_max // 2).                                *)
C26_ResetUnreachable ==
    bpc = "clamped_any" =>
        /\ ~bounds.reset
        /\ bounds.actual_min < bounds.actual_max
        /\ bounds.actual_min = Min(budget.min_length, bounds.actual_max - 1)

C26_Witness ==
    /\ bpc = "clamped_any"
    /\ budget.min_length > budget.max_length
    /\ token_count < budget.max_length
    /\ bounds.actual_max = token_count
    /\ bounds.actual_min = token_count - 1

----------------------------------------------------------------------------
(* C27: during scrape_month no GET request follows another GET request     *)
(* without a sleep of DELAY_BETWEEN_REQUESTS between them.                 *)
C27_DelayBetweenRequests == ~back_to_back

(* C28: scrape_month fetches at most max_pages_per_month month pages, an   *)
(* error on a page leads to the return of the articles collected so far,   *)
(* and the call always returns, whatever the older-posts links are.        *)
C28_Terminates ==
    /\ [](/\ pages_fetched <= max_pages_per_month
          /\ page_count <= pages_fetched
          /\ spc = "returned" => returned = articles)
    /\ (spc = "break") ~> (spc = "returned" /\ returned = articles)
    /\ <>(spc = "returned")

C28_Witness ==
    /\ spc = "returned"
    /\ pages_fetched = max_pages_per_month
    /\ page_count = max_pages_per_month
    /\ current_url # NoUrl
    /\ returned > 0

====
